---- MODULE Spec2Model ----
(***************************************************************************)
(* things-go/sets: the generic Set[T], a Go map[T]struct{}.                *)
(*                                                                         *)
(* A Go map value is a reference to a map object, so two Set values may    *)
(* denote the same object.  The model keeps the map objects in a heap and  *)
(* lets every Set value be the address of its object: what an operation    *)
(* returns (a fresh object or one of its operands) is part of the model.   *)
(* A map object map[T]struct{} is modelled by its key set.                 *)
(***************************************************************************)
EXTENDS Integers, Sequences, FiniteSets, TLC

VARIABLES heap, last, made, args, out, prev, panicked

vars == <<heap, last, made, args, out, prev, panicked>>

\* ---- bounds -------------------------------------------------------------
\* element universe of the operands drawn for the algebra specification
MaxElem == 7
\* element universe of the mutation specification
MaxKey == 1
\* longest variadic item list passed to Insert / Delete
MaxItems == 1
\* element universe of the single-call specification SpecSeq
MaxVal == 4
\* longest variadic item list of SpecSeq
MaxArgs == 3

Elem == 1 .. MaxElem
Key == 1 .. MaxKey
ItemLists == UNION {[1 .. n -> Key] : n \in 0 .. MaxItems}
Val == 1 .. MaxVal
ArgLists == UNION {[1 .. n -> Val] : n \in 0 .. MaxArgs}

\* ---- Go map primitives ---------------------------------------------------
\* make(Set[T], cap): a fresh empty map object, at a new address
newSet(h) == [heap |-> Append(h, {}), ref |-> Len(h) + 1]

\* s[key] = struct{}{}
MapPut(h, s, key) == [h EXCEPT ![s] = @ \cup {key}]

\* delete(s, key)
MapDelete(h, s, key) == [h EXCEPT ![s] = @ \ {key}]

\* len(s)
Len_(h, s) == Cardinality(h[s])

\* _, contained := s[item]
Contains(h, s, item) == item \in h[s]

\* `for key := range s` visits the keys in an unspecified order; the loops
\* below visit the keys still to be visited in the order Pick yields them.
Pick(keys) == CHOOSE k \in keys : TRUE

\* ---- set algebra (Set[T]) ------------------------------------------------
\* Difference: for key := range s { if !s2.Contains(key) { result[key] = {} } }
RECURSIVE DifferenceLoop(_, _, _, _)
DifferenceLoop(h, keys, s2, result) ==
  IF keys = {} THEN h
  ELSE LET key == Pick(keys)
           h1 == IF ~Contains(h, s2, key) THEN MapPut(h, result, key) ELSE h
       IN  DifferenceLoop(h1, keys \ {key}, s2, result)

\* variant: the loop ranges over s2 and probes s
Difference_Swapped(h, s, s2) ==
  LET result == newSet(h)
  IN  [heap |-> DifferenceLoop(result.heap, result.heap[s2], s, result.ref),
       ret |-> <<result.ref>>]

Difference(h, s, s2) ==
  LET result == newSet(h)
  IN  [heap |-> DifferenceLoop(result.heap, result.heap[s], s2, result.ref),
       ret |-> <<result.ref>>]

\* Union, either loop: for key := range s { result[key] = struct{}{} }
RECURSIVE UnionLoop(_, _, _)
UnionLoop(h, keys, result) ==
  IF keys = {} THEN h
  ELSE LET key == Pick(keys)
       IN  UnionLoop(MapPut(h, result, key), keys \ {key}, result)

\* variant: the keys of s2 are put into the receiver, which is returned
Union_InPlace(h, s, s2) == [heap |-> UnionLoop(h, h[s2], s), ret |-> <<s>>]
\* variant: the loop over s2 is missing
Union_FirstOnly(h, s, s2) ==
  LET result == newSet(h)
  IN  [heap |-> UnionLoop(result.heap, result.heap[s], result.ref),
       ret |-> <<result.ref>>]

\* variant: an empty s2 short-cuts to returning the receiver
Union_ReuseReceiver(h, s, s2) ==
  IF h[s2] = {} THEN [heap |-> h, ret |-> <<s>>]
  ELSE LET result == newSet(h)
           h1 == UnionLoop(result.heap, result.heap[s], result.ref)
           h2 == UnionLoop(h1, h1[s2], result.ref)
       IN  [heap |-> h2, ret |-> <<result.ref>>]

Union(h, s, s2) ==
  LET result == newSet(h)
      h1 == UnionLoop(result.heap, result.heap[s], result.ref)
      h2 == UnionLoop(h1, h1[s2], result.ref)
  IN  [heap |-> h2, ret |-> <<result.ref>>]

\* for key := range walk { if other.Contains(key) { ret[key] = struct{}{} } }
RECURSIVE IntersectionLoop(_, _, _, _)
IntersectionLoop(h, keys, other, ret) ==
  IF keys = {} THEN h
  ELSE LET key == Pick(keys)
           h1 == IF Contains(h, other, key) THEN MapPut(h, ret, key) ELSE h
       IN  IntersectionLoop(h1, keys \ {key}, other, ret)

\* variant: the else branch sets walk but leaves other at s2
Intersection_OtherS2(h, s, s2) ==
  LET walk == IF Len_(h, s) < Len_(h, s2) THEN s ELSE s2
      other == s2
      ret == newSet(h)
  IN  [heap |-> IntersectionLoop(ret.heap, ret.heap[walk], other, ret.ref),
       ret |-> <<ret.ref>>]

Intersection(h, s, s2) ==
  LET walk == IF Len_(h, s) < Len_(h, s2) THEN s ELSE s2
      other == IF Len_(h, s) < Len_(h, s2) THEN s2 ELSE s
      ret == newSet(h)
  IN  [heap |-> IntersectionLoop(ret.heap, ret.heap[walk], other, ret.ref),
       ret |-> <<ret.ref>>]

\* the same loop, counting the calls of other.Contains: one in each iteration
RECURSIVE IntersectionProbeLoop(_, _, _, _)
IntersectionProbeLoop(h, keys, other, probes) ==
  IF keys = {} THEN probes
  ELSE LET key == Pick(keys)
           found == Contains(h, other, key)
       IN  IntersectionProbeLoop(h, keys \ {key}, other, probes + 1)

\* variant: the receiver is walked whatever the sizes
IntersectionProbes_WalkReceiver(h, s, s2) ==
  IntersectionProbeLoop(h, h[s], s2, 0)

\* the number of membership probes of s.Intersection(s2), and of
\* s.IntersectionSlice(s2), which chooses walk and other by the same test
IntersectionProbes(h, s, s2) ==
  LET walk == IF Len_(h, s) < Len_(h, s2) THEN s ELSE s2
      other == IF Len_(h, s) < Len_(h, s2) THEN s2 ELSE s
  IN  IntersectionProbeLoop(h, h[walk], other, 0)
\* Diff, first loop: remained[key] if s2.Contains(key), else removed[key]
RECURSIVE DiffLoop(_, _, _, _, _)
DiffLoop(h, keys, s2, removed, remained) ==
  IF keys = {} THEN h
  ELSE LET key == Pick(keys)
           h1 == IF Contains(h, s2, key) THEN MapPut(h, remained, key)
                                         ELSE MapPut(h, removed, key)
       IN  DiffLoop(h1, keys \ {key}, s2, removed, remained)

\* Diff / DiffVary, second loop:
\* for key := range s2 { if !s.Contains(key) { added[key] = struct{}{} } }
\* variant: the !s.Contains(key) test is missing
AddedLoop_NoTest(h, keys, s, added) == [h EXCEPT ![added] = @ \cup keys]

RECURSIVE AddedLoop(_, _, _, _)
AddedLoop(h, keys, s, added) ==
  IF keys = {} THEN h
  ELSE LET key == Pick(keys)
           h1 == IF ~Contains(h, s, key) THEN MapPut(h, added, key) ELSE h
       IN  AddedLoop(h1, keys \ {key}, s, added)

\* variant: removed and added are returned in each other's place
Diff_SwappedReturns(h, s, s2) ==
  LET removed == newSet(h)
      added == newSet(removed.heap)
      remained == newSet(added.heap)
      h1 == DiffLoop(remained.heap, remained.heap[s], s2, removed.ref, remained.ref)
      h2 == AddedLoop(h1, h1[s2], s, added.ref)
  IN  [heap |-> h2, ret |-> <<removed.ref, added.ref, remained.ref>>]

\* returns added, removed, remained
Diff(h, s, s2) ==
  LET removed == newSet(h)
      added == newSet(removed.heap)
      remained == newSet(added.heap)
      h1 == DiffLoop(remained.heap, remained.heap[s], s2, removed.ref, remained.ref)
      h2 == AddedLoop(h1, h1[s2], s, added.ref)
  IN  [heap |-> h2, ret |-> <<added.ref, removed.ref, remained.ref>>]

\* variant: the first loop keeps the keys that s2 contains
DiffVary_KeepsContained(h, s, s2) ==
  LET removed == newSet(h)
      added == newSet(removed.heap)
      h1 == IntersectionLoop(added.heap, added.heap[s], s2, removed.ref)
      h2 == AddedLoop(h1, h1[s2], s, added.ref)
  IN  [heap |-> h2, ret |-> <<added.ref, removed.ref>>]
\* returns added, removed
DiffVary(h, s, s2) ==
  LET removed == newSet(h)
      added == newSet(removed.heap)
      h1 == DifferenceLoop(added.heap, added.heap[s], s2, removed.ref)
      h2 == AddedLoop(h1, h1[s2], s, added.ref)
  IN  [heap |-> h2, ret |-> <<added.ref, removed.ref>>]

\* ---- mutation, predicates, copy -------------------------------------------
\* variant: the loop ends at the first item that is already a member
RECURSIVE InsertLoop_StopAtPresent(_, _, _)
InsertLoop_StopAtPresent(h, s, items) ==
  IF items = <<>> THEN h
  ELSE IF Contains(h, s, Head(items)) THEN h
       ELSE InsertLoop_StopAtPresent(MapPut(h, s, Head(items)), s, Tail(items))
\* for _, item := range items { s[item] = struct{}{} }; return s
RECURSIVE InsertLoop(_, _, _)
InsertLoop(h, s, items) ==
  IF items = <<>> THEN h
  ELSE InsertLoop(MapPut(h, s, Head(items)), s, Tail(items))

\* variant: the items are inserted into s, and a copy of s is returned
Insert_ReturnCopy(h, s, items) ==
  LET h1 == InsertLoop(h, s, items)
      c == newSet(h1)
  IN  [heap |-> [c.heap EXCEPT ![c.ref] = h1[s]], ret |-> <<c.ref>>]
Insert(h, s, items) == [heap |-> InsertLoop(h, s, items), ret |-> <<s>>]

\* variant: only the first item of the list is deleted
DeleteLoop_First(h, s, items) ==
  IF items = <<>> THEN h
  ELSE MapDelete(h, s, Head(items))
\* for _, item := range items { delete(s, item) }; return s
RECURSIVE DeleteLoop(_, _, _)
DeleteLoop(h, s, items) ==
  IF items = <<>> THEN h
  ELSE DeleteLoop(MapDelete(h, s, Head(items)), s, Tail(items))

Delete(h, s, items) == [heap |-> DeleteLoop(h, s, items), ret |-> <<s>>]

\* for item := range s2 { s[item] = struct{}{} }; return s
\* (with s2 the same object as s every key put is already present, so the
\* set of keys the range visits is the key set at loop entry)
RECURSIVE MergeLoop(_, _, _)
MergeLoop(h, keys, s) ==
  IF keys = {} THEN h
  ELSE LET item == Pick(keys)
       IN  MergeLoop(MapPut(h, s, item), keys \ {item}, s)

\* variant: Merge builds and returns a new set, as Union does
Merge_Copy(h, s, s2) == Union(h, s, s2)

Merge(h, s, s2) == [heap |-> MergeLoop(h, h[s2], s), ret |-> <<s>>]

\* for item := range s2 { if !s.Contains(item) { return false } }; return true
RECURSIVE IsSupersetLoop(_, _, _)
IsSupersetLoop(h, keys, s) ==
  IF keys = {} THEN TRUE
  ELSE LET item == Pick(keys)
       IN  IF ~Contains(h, s, item) THEN FALSE
           ELSE IsSupersetLoop(h, keys \ {item}, s)

\* variant: a proper superset is asked for
IsSuperset_Proper(h, s, s2) ==
  Len_(h, s) > Len_(h, s2) /\ IsSupersetLoop(h, h[s2], s)
IsSuperset(h, s, s2) == IsSupersetLoop(h, h[s2], s)

\* for item := range s { if !s2.Contains(item) { return false } }; return true
RECURSIVE IsSubsetLoop(_, _, _)
IsSubsetLoop(h, keys, s2) ==
  IF keys = {} THEN TRUE
  ELSE LET item == Pick(keys)
       IN  IF ~Contains(h, s2, item) THEN FALSE
           ELSE IsSubsetLoop(h, keys \ {item}, s2)

\* variant: the body of IsSuperset, as the doc comment of IsSubset has it
IsSubset_AsSuperset(h, s, s2) == IsSupersetLoop(h, h[s2], s)

IsSubset(h, s, s2) == IsSubsetLoop(h, h[s], s2)

\* variant: the length comparison is missing
Equal_NoLen(h, s, s2) == IsSuperset(h, s, s2)

\* len(s) == len(s2) && s.IsSuperset(s2)
Equal(h, s, s2) == Len_(h, s) = Len_(h, s2) /\ IsSuperset(h, s, s2)

\* NewFrom(m): ret := newSet(len(m)); for k := range m { ret[k] = struct{}{} }
RECURSIVE NewFromLoop(_, _, _)
NewFromLoop(h, keys, ret) ==
  IF keys = {} THEN h
  ELSE LET k == Pick(keys)
       IN  NewFromLoop(MapPut(h, ret, k), keys \ {k}, ret)

\* variant: the mapping itself is returned as the set
NewFrom_Convert(h, m) == [heap |-> h, ret |-> <<m>>]
NewFrom(h, m) ==
  LET ret == newSet(h)
  IN  [heap |-> NewFromLoop(ret.heap, ret.heap[m], ret.ref), ret |-> <<ret.ref>>]

\* variant: Clone returns the receiver
Clone_Alias(h, s) == [heap |-> h, ret |-> <<s>>]

\* return NewFrom(s)
Clone(h, s) == NewFrom(h, s)

\* variant: every key is deleted, one of them is returned
Pop_Clear(h, s) ==
  IF h[s] = {} THEN {[heap |-> h, val |-> 0, ok |-> FALSE]}
  ELSE {[heap |-> [h EXCEPT ![s] = {}], val |-> key, ok |-> TRUE] : key \in h[s]}
\* variant: the key is returned and stays in the map
Pop_NoDelete(h, s) ==
  IF h[s] = {} THEN {[heap |-> h, val |-> 0, ok |-> FALSE]}
  ELSE {[heap |-> h, val |-> key, ok |-> TRUE] : key \in h[s]}
\* Pop: for key := range s { delete(s, key); return key, true }; return
\* The key the range yields first is any member: one outcome per member.
Pop(h, s) ==
  IF h[s] = {} THEN {[heap |-> h, val |-> 0, ok |-> FALSE]}
  ELSE {[heap |-> MapDelete(h, s, key), val |-> key, ok |-> TRUE] : key \in h[s]}

\* ---- construction, membership of item lists ----------------------------------
\* New(items...): ret := newSet(len(items)); return ret.Insert(items...)
New(h, items) ==
  LET ret == newSet(h)
  IN  Insert(ret.heap, ret.ref, items)

\* for _, item := range items { if !s.Contains(item) { return false } }; return true
RECURSIVE ContainsAll(_, _, _)
ContainsAll(h, s, items) ==
  IF items = <<>> THEN TRUE
  ELSE IF ~Contains(h, s, Head(items)) THEN FALSE
       ELSE ContainsAll(h, s, Tail(items))

\* variant: the answer for the first item is returned
ContainsAny_FirstOnly(h, s, items) ==
  IF items = <<>> THEN FALSE
  ELSE Contains(h, s, Head(items))
\* for _, item := range items { if s.Contains(item) { return true } }; return false
RECURSIVE ContainsAny(_, _, _)
ContainsAny(h, s, items) ==
  IF items = <<>> THEN FALSE
  ELSE IF Contains(h, s, Head(items)) THEN TRUE
       ELSE ContainsAny(h, s, Tail(items))

\* ---- enumeration ------------------------------------------------------------
\* Go does not fix the order in which `for key := range s` yields the keys
\* of a map, and it differs from one range statement to the next: every
\* order of the keys is an outcome.
RECURSIVE RangeOrders(_)
RangeOrders(keys) ==
  IF keys = {} THEN {<<>>}
  ELSE UNION {{<<k>> \o rest : rest \in RangeOrders(keys \ {k})} : k \in keys}

\* for key := range s { res = append(res, key) }
RECURSIVE AppendLoop(_, _)
AppendLoop(order, res) ==
  IF order = <<>> THEN res
  ELSE AppendLoop(Tail(order), Append(res, Head(order)))

\* Set[T].List: the keys appended in range order, and returned as they are
List(h, s) == {AppendLoop(order, <<>>) : order \in RangeOrders(h[s])}

\* ---- the per-type set Int (map[int]struct{}) -------------------------------
\* variant: the comparison the other way round
lessInt_Greater(lhs, rhs) == lhs > rhs
lessInt(lhs, rhs) == lhs < rhs

\* sortableSliceOfInt: Less and Swap
Less(res, i, j) == lessInt(res[i], res[j])

Swap(res, i, j) == [res EXCEPT ![i] = res[j], ![j] = res[i]]

\* sort.Sort(res) on a slice of fewer than 12 elements is an insertion sort
\* by Less and Swap:
\* for i := 1; i < n; i++ { for j := i; j > 0 && Less(j, j-1); j-- { Swap(j, j-1) } }
\* (indices from 1 here)
RECURSIVE SortInner(_, _)
SortInner(res, j) ==
  IF j > 1 /\ Less(res, j, j - 1) THEN SortInner(Swap(res, j, j - 1), j - 1)
  ELSE res

RECURSIVE SortOuter(_, _)
SortOuter(res, i) ==
  IF i > Len(res) THEN res
  ELSE SortOuter(SortInner(res, i), i + 1)

Sort(res) == SortOuter(res, 2)

\* Int.List: the keys appended in range order, then sort.Sort(res)
IntList(h, s) == {Sort(AppendLoop(order, <<>>)) : order \in RangeOrders(h[s])}

\* Int.UnsortedList: the keys appended in range order
IntUnsortedList(h, s) == {AppendLoop(order, <<>>) : order \in RangeOrders(h[s])}

\* ---- traversal --------------------------------------------------------------
\* The callback handed to Each, and the body of a range over Values(), is
\* func(item) bool { return item != x } for the x of the list stop, and
\* func(item) bool { return true } for the empty list.  Each and the iterator
\* see of a callback only what it returns, and any run of them ends at the
\* first item answered with false: these callbacks produce every run.
Visit(stop, item) == \A i \in DOMAIN stop : item # stop[i]

\* variant: the answer of f is ignored
RECURSIVE EachLoop_NoBreak(_, _, _)
EachLoop_NoBreak(order, stop, visited) ==
  IF order = <<>> THEN [out |-> visited, ok |-> TRUE]
  ELSE EachLoop_NoBreak(Tail(order), stop, Append(visited, Head(order)))
\* Each: for item := range s { if !f(item) { break } }
\* out: the items handed to f, in order; ok: the range ran to its end
RECURSIVE EachLoop(_, _, _)
EachLoop(order, stop, visited) ==
  IF order = <<>> THEN [out |-> visited, ok |-> TRUE]
  ELSE LET item == Head(order)
       IN  IF ~Visit(stop, item) THEN [out |-> Append(visited, item), ok |-> FALSE]
           ELSE EachLoop(Tail(order), stop, Append(visited, item))

Each(h, s, stop) == {EachLoop(order, stop, <<>>) : order \in RangeOrders(h[s])}

\* variant: the answer of yield is ignored
RECURSIVE ValuesLoop_IgnoreYield(_, _, _)
ValuesLoop_IgnoreYield(order, stop, yielded) ==
  IF order = <<>> THEN [out |-> yielded, ok |-> TRUE]
  ELSE ValuesLoop_IgnoreYield(Tail(order), stop, Append(yielded, Head(order)))
\* Values: func(yield) { for k := range s { if !yield(k) { return } } }
\* one run of the returned iter.Seq; the closure holds s and nothing else
RECURSIVE ValuesLoop(_, _, _)
ValuesLoop(order, stop, yielded) ==
  IF order = <<>> THEN [out |-> yielded, ok |-> TRUE]
  ELSE LET k == Head(order)
       IN  IF ~Visit(stop, k) THEN [out |-> Append(yielded, k), ok |-> FALSE]
           ELSE ValuesLoop(Tail(order), stop, Append(yielded, k))

Values(h, s, stop) == {ValuesLoop(order, stop, <<>>) : order \in RangeOrders(h[s])}

\* ---- set algebra, slice forms ---------------------------------------------------
\* Each takes the order in which its range statements yield the keys, and
\* returns the slices it builds; every pair of orders is an outcome.

\* for key := range s { if !s2.Contains(key) { result = append(result, key) } }
\* (also the second loop of UnionSlice, DiffSlice and DiffVarySlice, with
\* the operands the other way round)
RECURSIVE DifferenceSliceLoop(_, _, _, _)
DifferenceSliceLoop(h, order, s2, result) ==
  IF order = <<>> THEN result
  ELSE LET key == Head(order)
           r1 == IF ~Contains(h, s2, key) THEN Append(result, key) ELSE result
       IN  DifferenceSliceLoop(h, Tail(order), s2, r1)

DifferenceSlice(h, s, s2) ==
  {<<DifferenceSliceLoop(h, order, s2, <<>>)>> : order \in RangeOrders(h[s])}

\* variant: the second loop appends every key of s2
UnionSlice_NoTest(h, s, s2) ==
  {<<AppendLoop(order2, AppendLoop(order, <<>>))>> :
     order \in RangeOrders(h[s]), order2 \in RangeOrders(h[s2])}

UnionSlice(h, s, s2) ==
  {<<DifferenceSliceLoop(h, order2, s, AppendLoop(order, <<>>))>> :
     order \in RangeOrders(h[s]), order2 \in RangeOrders(h[s2])}

\* for key := range walk { if other.Contains(key) { ret = append(ret, key) } }
RECURSIVE IntersectionSliceLoop(_, _, _, _)
IntersectionSliceLoop(h, order, other, ret) ==
  IF order = <<>> THEN ret
  ELSE LET key == Head(order)
           r1 == IF Contains(h, other, key) THEN Append(ret, key) ELSE ret
       IN  IntersectionSliceLoop(h, Tail(order), other, r1)

IntersectionSlice(h, s, s2) ==
  LET walk == IF Len_(h, s) < Len_(h, s2) THEN s ELSE s2
      other == IF Len_(h, s) < Len_(h, s2) THEN s2 ELSE s
  IN  {<<IntersectionSliceLoop(h, order, other, <<>>)>> : order \in RangeOrders(h[walk])}

\* DiffSlice, first loop: append to remained if s2.Contains(key), else to
\* removed; the result is <<removed, remained>>
RECURSIVE DiffSliceLoop(_, _, _, _, _)
DiffSliceLoop(h, order, s2, removed, remained) ==
  IF order = <<>> THEN <<removed, remained>>
  ELSE LET key == Head(order)
       IN  IF Contains(h, s2, key)
           THEN DiffSliceLoop(h, Tail(order), s2, removed, Append(remained, key))
           ELSE DiffSliceLoop(h, Tail(order), s2, Append(removed, key), remained)

\* returns added, removed, remained
DiffSlice(h, s, s2) ==
  {LET first == DiffSliceLoop(h, order, s2, <<>>, <<>>)
       added == DifferenceSliceLoop(h, order2, s, <<>>)
   IN  <<added, first[1], first[2]>> :
     order \in RangeOrders(h[s]), order2 \in RangeOrders(h[s2])}

\* returns added, removed
DiffVarySlice(h, s, s2) ==
  {LET removed == DifferenceSliceLoop(h, order, s2, <<>>)
       added == DifferenceSliceLoop(h, order2, s, <<>>)
   IN  <<added, removed>> :
     order \in RangeOrders(h[s]), order2 \in RangeOrders(h[s2])}
\* ---- values handed to the reflection-based constructors ---------------------------
\* theMap interface{} is any Go value: a map, with keys of type int or of
\* another type (string), or a value of another kind; the nil interface has
\* the kind Invalid.  Values in the maps play no part.
DynMap(keyType, keys) == [kind |-> "Map", key |-> keyType, keys |-> keys]

DynOther(kind) == [kind |-> kind, key |-> "", keys |-> {}]

DynValues ==
  {DynMap(keyType, keys) : keyType \in {"int", "string"}, keys \in SUBSET Val}
    \cup {DynOther(kind) : kind \in {"Int", "Slice", "Invalid"}}

\* reflect.Value.MapKeys panics if the value's kind is not Map
MapKeysPanics(v) == v.kind # "Map"

\* NewIntFrom, the loop: ret[keyValue.Interface().(int)] = struct{}{}
\* the type assertion panics on a key that is not an int
RECURSIVE NewIntFromLoop(_, _, _, _)
NewIntFromLoop(h, keyType, keys, ret) ==
  IF keys = {} THEN [heap |-> h, panic |-> FALSE]
  ELSE IF keyType # "int" THEN [heap |-> h, panic |-> TRUE]
       ELSE LET k == Pick(keys)
            IN  NewIntFromLoop(MapPut(h, ret, k), keyType, keys \ {k}, ret)

\* variant: a value that is not a map is taken as a map without keys
NewIntFrom_Lenient(h, theMap) ==
  LET ret == newSet(h)
      r == NewIntFromLoop(ret.heap, theMap.key, theMap.keys, ret.ref)
  IN  [heap |-> r.heap, ret |-> IF r.panic THEN <<>> ELSE <<ret.ref>>,
       panic |-> r.panic]

\* v := reflect.ValueOf(theMap); ret := Int{}; for ... range v.MapKeys()
NewIntFrom(h, theMap) ==
  LET ret == newSet(h)
  IN  IF MapKeysPanics(theMap)
      THEN [heap |-> ret.heap, ret |-> <<>>, panic |-> TRUE]
      ELSE LET r == NewIntFromLoop(ret.heap, theMap.key, theMap.keys, ret.ref)
           IN  [heap |-> r.heap, ret |-> IF r.panic THEN <<>> ELSE <<ret.ref>>,
                panic |-> r.panic]

\* ---- the opaque-value Set: struct { m map[interface{}]struct{}; cmp Comparator } ---
\* An object of the heap is here the struct a *Set points to.  A Comparator
\* is one of the orders a caller supplies, or nil.
NoCmp == "nil"

Cmps == {"ascending", "descending"}

\* Comparator.Compare: negative, zero or positive
Compare(cmp, v1, v2) == IF cmp = "ascending" THEN v1 - v2 ELSE v2 - v1

\* s.m[item] = struct{}{} for each item
RECURSIVE OpaqueInsertLoop(_, _, _)
OpaqueInsertLoop(h, s, items) ==
  IF items = <<>> THEN h
  ELSE OpaqueInsertLoop([h EXCEPT ![s].m = @ \cup {Head(items)}], s, Tail(items))

OpaqueInsert(h, s, items) == [heap |-> OpaqueInsertLoop(h, s, items), ret |-> <<s>>]

OpaqueContains(h, s, item) == item \in h[s].m

OpaqueLen(h, s) == Cardinality(h[s].m)

\* the options: functions applied to the new Set
WithItems(items) == [opt |-> "WithItems", items |-> items, cmp |-> NoCmp]

WithComparator(cmp) == [opt |-> "WithComparator", items |-> <<>>, cmp |-> cmp]

RECURSIVE OptLoop(_, _, _)
OptLoop(h, ss, opts) ==
  IF opts = <<>> THEN h
  ELSE LET opt == Head(opts)
           h1 == IF opt.opt = "WithItems" THEN OpaqueInsert(h, ss, opt.items).heap
                 ELSE [h EXCEPT ![ss].cmp = opt.cmp]
       IN  OptLoop(h1, ss, Tail(opts))

\* ss := &Set{m: make(...)}; for _, opt := range opts { opt(ss) }; return ss
OpaqueNew(h, opts) ==
  LET ss == Len(h) + 1
      h1 == Append(h, [m |-> {}, cmp |-> NoCmp])
  IN  [heap |-> OptLoop(h1, ss, opts), ret |-> <<ss>>]

\* for _, keyValue := range v.MapKeys() { ret.m[keyValue.Interface()] = struct{}{} }
RECURSIVE NewSetFromLoop(_, _, _)
NewSetFromLoop(h, keys, ret) ==
  IF keys = {} THEN h
  ELSE LET k == Pick(keys)
       IN  NewSetFromLoop([h EXCEPT ![ret].m = @ \cup {k}], keys \ {k}, ret)

\* v := reflect.ValueOf(theMap); ret := New(opts...); for ... range v.MapKeys()
NewSetFrom(h, theMap, opts) ==
  LET ret == OpaqueNew(h, opts)
  IN  IF MapKeysPanics(theMap)
      THEN [heap |-> ret.heap, ret |-> <<>>, panic |-> TRUE]
      ELSE [heap |-> NewSetFromLoop(ret.heap, theMap.keys, ret.ret[1]),
            ret |-> ret.ret, panic |-> FALSE]
\* for key := range s.m { if !s2.Contains(key) { result.m[key] = struct{}{} } }
RECURSIVE OpaqueDifferenceLoop(_, _, _, _)
OpaqueDifferenceLoop(h, keys, s2, result) ==
  IF keys = {} THEN h
  ELSE LET key == Pick(keys)
           h1 == IF ~OpaqueContains(h, s2, key)
                 THEN [h EXCEPT ![result].m = @ \cup {key}] ELSE h
       IN  OpaqueDifferenceLoop(h1, keys \ {key}, s2, result)

\* result := New(WithComparator(s.cmp)); the loop; return result
OpaqueDifference(h, s, s2) ==
  LET result == OpaqueNew(h, <<WithComparator(h[s].cmp)>>)
  IN  [heap |-> OpaqueDifferenceLoop(result.heap, result.heap[s].m, s2, result.ret[1]),
       ret |-> result.ret]

\* Union, either loop: for key := range s.m { result.m[key] = struct{}{} }
RECURSIVE OpaqueUnionLoop(_, _, _)
OpaqueUnionLoop(h, keys, result) ==
  IF keys = {} THEN h
  ELSE LET key == Pick(keys)
       IN  OpaqueUnionLoop([h EXCEPT ![result].m = @ \cup {key}], keys \ {key}, result)

OpaqueUnion(h, s, s2) ==
  LET result == OpaqueNew(h, <<WithComparator(h[s].cmp)>>)
      h1 == OpaqueUnionLoop(result.heap, result.heap[s].m, result.ret[1])
      h2 == OpaqueUnionLoop(h1, h1[s2].m, result.ret[1])
  IN  [heap |-> h2, ret |-> result.ret]

\* for key := range walk.m { if other.Contains(key) { result.m[key] = struct{}{} } }
RECURSIVE OpaqueIntersectionLoop(_, _, _, _)
OpaqueIntersectionLoop(h, keys, other, result) ==
  IF keys = {} THEN h
  ELSE LET key == Pick(keys)
           h1 == IF OpaqueContains(h, other, key)
                 THEN [h EXCEPT ![result].m = @ \cup {key}] ELSE h
       IN  OpaqueIntersectionLoop(h1, keys \ {key}, other, result)

\* variant: the result takes the comparator of walk, the smaller operand
OpaqueIntersection_WalkCmp(h, s, s2) ==
  LET walk == IF OpaqueLen(h, s) < OpaqueLen(h, s2) THEN s ELSE s2
      other == IF OpaqueLen(h, s) < OpaqueLen(h, s2) THEN s2 ELSE s
      result == OpaqueNew(h, <<WithComparator(h[walk].cmp)>>)
  IN  [heap |-> OpaqueIntersectionLoop(result.heap, result.heap[walk].m, other,
                                       result.ret[1]),
       ret |-> result.ret]

OpaqueIntersection(h, s, s2) ==
  LET walk == IF OpaqueLen(h, s) < OpaqueLen(h, s2) THEN s ELSE s2
      other == IF OpaqueLen(h, s) < OpaqueLen(h, s2) THEN s2 ELSE s
      result == OpaqueNew(h, <<WithComparator(h[s].cmp)>>)
  IN  [heap |-> OpaqueIntersectionLoop(result.heap, result.heap[walk].m, other,
                                       result.ret[1]),
       ret |-> result.ret]

\* Clone: s.Each with the closure { ns.m[item] = struct{}{}; return true },
\* which never stops the traversal
RECURSIVE OpaqueCloneLoop(_, _, _)
OpaqueCloneLoop(h, keys, ns) ==
  IF keys = {} THEN h
  ELSE LET item == Pick(keys)
       IN  OpaqueCloneLoop([h EXCEPT ![ns].m = @ \cup {item}], keys \ {item}, ns)

\* ns := New(WithComparator(s.cmp)); s.Each(...); return ns
OpaqueClone(h, s) ==
  LET ns == OpaqueNew(h, <<WithComparator(h[s].cmp)>>)
  IN  [heap |-> OpaqueCloneLoop(ns.heap, ns.heap[s].m, ns.ret[1]), ret |-> ns.ret]

\* for key := range s.m { res = append(res, key) }: one slice per range order
OpaqueUnsortedList(h, s) == {AppendLoop(order, <<>>) : order \in RangeOrders(h[s].m)}

\* NewContainer(res, cmp).Sort(): res, rearranged into the order of cmp.
\* The sort is not among the sources; it is taken from the description of
\* List, "sorted by the supplied comparator".
RECURSIVE SortInsert(_, _, _)
SortInsert(sorted, v, cmp) ==
  IF sorted = <<>> THEN <<v>>
  ELSE IF Compare(cmp, v, Head(sorted)) < 0 THEN <<v>> \o sorted
       ELSE <<Head(sorted)>> \o SortInsert(Tail(sorted), v, cmp)

RECURSIVE ContainerSort(_, _)
ContainerSort(res, cmp) ==
  IF res = <<>> THEN <<>>
  ELSE SortInsert(ContainerSort(Tail(res), cmp), Head(res), cmp)

\* res := s.UnsortedList(); NewContainer(res, s.cmp).Sort(); return res
OpaqueList(h, s) == {ContainerSort(res, h[s].cmp) : res \in OpaqueUnsortedList(h, s)}
\* ---- the calls of a client program -----------------------------------------
\* last: the call made by the latest step (op, receiver, argument, the
\* addresses of the returned sets, the returned bool, the returned item).
\* made: the latest call that returned new sets, kept while they are mutated.
Call(op, s, s2, ret, ok, val) ==
  [op |-> op, recv |-> s, arg |-> s2, ret |-> ret, ok |-> ok, val |-> val]

NoCall == Call("Init", 0, 0, <<>>, FALSE, 0)

\* args: the item list passed to the latest call; out: the slice it returned
\* or the items it handed to its callback, in order; prev: the call before
\* the latest one.  Only the calls of SpecSeq use them.
\* panicked: the latest call ended in a run-time panic and returned nothing.
NoLists == UNCHANGED <<args, out, prev, panicked>>

CallDifference(s, s2) ==
  LET r == Difference(heap, s, s2)
  IN  /\ heap' = r.heap
      /\ last' = Call("Difference", s, s2, r.ret, TRUE, 0)
      /\ made' = last'

CallUnion(s, s2) ==
  LET r == Union(heap, s, s2)
  IN  /\ heap' = r.heap
      /\ last' = Call("Union", s, s2, r.ret, TRUE, 0)
      /\ made' = last'

\* val: the number of membership probes the call made
CallIntersection(s, s2) ==
  LET r == Intersection(heap, s, s2)
  IN  /\ heap' = r.heap
      /\ last' = Call("Intersection", s, s2, r.ret, TRUE, IntersectionProbes(heap, s, s2))
      /\ made' = last'

CallDiff(s, s2) ==
  LET r == Diff(heap, s, s2)
  IN  /\ heap' = r.heap
      /\ last' = Call("Diff", s, s2, r.ret, TRUE, 0)
      /\ made' = last'

CallDiffVary(s, s2) ==
  LET r == DiffVary(heap, s, s2)
  IN  /\ heap' = r.heap
      /\ last' = Call("DiffVary", s, s2, r.ret, TRUE, 0)
      /\ made' = last'

CallClone(s) ==
  LET r == Clone(heap, s)
  IN  /\ heap' = r.heap
      /\ last' = Call("Clone", s, 0, r.ret, TRUE, 0)
      /\ made' = last'

CallInsert(s, items) ==
  LET r == Insert(heap, s, items)
  IN  /\ heap' = r.heap
      /\ last' = Call("Insert", s, 0, r.ret, TRUE, 0)
      /\ UNCHANGED made

CallDelete(s, items) ==
  LET r == Delete(heap, s, items)
  IN  /\ heap' = r.heap
      /\ last' = Call("Delete", s, 0, r.ret, TRUE, 0)
      /\ UNCHANGED made

CallMerge(s, s2) ==
  LET r == Merge(heap, s, s2)
  IN  /\ heap' = r.heap
      /\ last' = Call("Merge", s, s2, r.ret, TRUE, 0)
      /\ UNCHANGED made

CallPop(s) ==
  \E r \in Pop(heap, s) :
    /\ heap' = r.heap
    /\ last' = Call("Pop", s, 0, <<>>, r.ok, r.val)
    /\ UNCHANGED made

CallEqual(s, s2) ==
  /\ last' = Call("Equal", s, s2, <<>>, Equal(heap, s, s2), 0)
  /\ UNCHANGED <<heap, made>>

CallIsSuperset(s, s2) ==
  /\ last' = Call("IsSuperset", s, s2, <<>>, IsSuperset(heap, s, s2), 0)
  /\ UNCHANGED <<heap, made>>

CallIsSubset(s, s2) ==
  /\ last' = Call("IsSubset", s, s2, <<>>, IsSubset(heap, s, s2), 0)
  /\ UNCHANGED <<heap, made>>

\* ---- specifications ---------------------------------------------------------
\* Spec: a client holding two sets a and b (built by New from any items over
\* Key) makes one call that returns new sets, and mutates any of the sets it
\* holds, operands and results, in any order, before and after that call.
Init ==
  /\ heap \in [1 .. 2 -> SUBSET Key]
  /\ last = NoCall
  /\ made = NoCall
  /\ args = <<>>
  /\ out = <<>>
  /\ prev = NoCall
  /\ panicked = FALSE

Next ==
  \/ \E s, s2 \in DOMAIN heap : made = NoCall /\ CallDifference(s, s2) /\ NoLists
  \/ \E s, s2 \in DOMAIN heap : made = NoCall /\ CallUnion(s, s2) /\ NoLists
  \/ \E s, s2 \in DOMAIN heap : made = NoCall /\ CallIntersection(s, s2) /\ NoLists
  \/ \E s, s2 \in DOMAIN heap : made = NoCall /\ CallDiff(s, s2) /\ NoLists
  \/ \E s, s2 \in DOMAIN heap : made = NoCall /\ CallDiffVary(s, s2) /\ NoLists
  \/ \E s \in DOMAIN heap : made = NoCall /\ CallClone(s) /\ NoLists
  \/ \E s \in DOMAIN heap, items \in ItemLists : CallInsert(s, items) /\ NoLists
  \/ \E s \in DOMAIN heap, items \in ItemLists : CallDelete(s, items) /\ NoLists
  \/ \E s, s2 \in DOMAIN heap : CallMerge(s, s2) /\ NoLists
  \/ \E s \in DOMAIN heap : CallPop(s) /\ NoLists

Spec == Init /\ [][Next]_vars

\* SpecAlg: the algebra, Merge and the predicates as functions of two operand
\* sets a and b drawn from the subsets of Elem; one call with receiver a and
\* argument b or a itself (InitAlg draws every pair, so b as receiver is the
\* same call from another initial state).
InitAlg ==
  /\ heap \in [1 .. 2 -> SUBSET Elem]
  /\ last = NoCall
  /\ made = NoCall
  /\ args = <<>>
  /\ out = <<>>
  /\ prev = NoCall
  /\ panicked = FALSE

NextAlg ==
  \/ \E s \in {1}, s2 \in DOMAIN heap : last = NoCall /\ CallDifference(s, s2) /\ NoLists
  \/ \E s \in {1}, s2 \in DOMAIN heap : last = NoCall /\ CallUnion(s, s2) /\ NoLists
  \/ \E s \in {1}, s2 \in DOMAIN heap : last = NoCall /\ CallIntersection(s, s2) /\ NoLists
  \/ \E s \in {1}, s2 \in DOMAIN heap : last = NoCall /\ CallDiff(s, s2) /\ NoLists
  \/ \E s \in {1}, s2 \in DOMAIN heap : last = NoCall /\ CallDiffVary(s, s2) /\ NoLists
  \/ \E s \in {1}, s2 \in DOMAIN heap : last = NoCall /\ CallMerge(s, s2) /\ NoLists
  \/ \E s \in {1}, s2 \in DOMAIN heap : last = NoCall /\ CallEqual(s, s2) /\ NoLists
  \/ \E s \in {1}, s2 \in DOMAIN heap : last = NoCall /\ CallIsSuperset(s, s2) /\ NoLists
  \/ \E s \in {1}, s2 \in DOMAIN heap : last = NoCall /\ CallIsSubset(s, s2) /\ NoLists

SpecAlg == InitAlg /\ [][NextAlg]_vars

\* ---- calls with item lists, enumeration and traversal --------------------------
Lists(a, o) == args' = a /\ out' = o /\ prev' = last /\ UNCHANGED panicked

CallNew(items) ==
  LET r == New(heap, items)
  IN  /\ heap' = r.heap
      /\ last' = Call("New", 0, 0, r.ret, TRUE, 0)
      /\ UNCHANGED made
      /\ Lists(items, <<>>)

CallContainsAll(s, items) ==
  /\ last' = Call("ContainsAll", s, 0, <<>>, ContainsAll(heap, s, items), 0)
  /\ UNCHANGED <<heap, made>>
  /\ Lists(items, <<>>)

CallContainsAny(s, items) ==
  /\ last' = Call("ContainsAny", s, 0, <<>>, ContainsAny(heap, s, items), 0)
  /\ UNCHANGED <<heap, made>>
  /\ Lists(items, <<>>)

CallList(s) ==
  \E res \in List(heap, s) :
    /\ last' = Call("List", s, 0, <<>>, TRUE, 0)
    /\ UNCHANGED <<heap, made>>
    /\ Lists(<<>>, res)

CallIntList(s) ==
  \E res \in IntList(heap, s) :
    /\ last' = Call("IntList", s, 0, <<>>, TRUE, 0)
    /\ UNCHANGED <<heap, made>>
    /\ Lists(<<>>, res)

CallIntUnsortedList(s) ==
  \E res \in IntUnsortedList(heap, s) :
    /\ last' = Call("IntUnsortedList", s, 0, <<>>, TRUE, 0)
    /\ UNCHANGED <<heap, made>>
    /\ Lists(<<>>, res)

CallEach(s, stop) ==
  \E r \in Each(heap, s, stop) :
    /\ last' = Call("Each", s, 0, <<>>, r.ok, 0)
    /\ UNCHANGED <<heap, made>>
    /\ Lists(stop, r.out)

\* for k := range s.Values() { ... }
CallValues(s, stop) ==
  \E r \in Values(heap, s, stop) :
    /\ last' = Call("Values", s, 0, <<>>, r.ok, 0)
    /\ UNCHANGED <<heap, made>>
    /\ Lists(stop, r.out)

\* SpecSeq: one set a, drawn from the subsets of Val, and one call on it with
\* any item list over Val.  List may be called a second time, right after
\* the first; a range over Values() may be followed by a second one, whose
\* body never leaves the loop; and a set made by New may be merged with a,
\* either way round.
StopLists == {stop \in ArgLists : Len(stop) <= 1}

First == last = NoCall

Again(op) == last.op = op /\ prev = NoCall

AfterNew == last.op = "New" /\ prev = NoCall

InitSeq ==
  /\ heap \in [1 .. 1 -> SUBSET Val]
  /\ last = NoCall
  /\ made = NoCall
  /\ args = <<>>
  /\ out = <<>>
  /\ prev = NoCall
  /\ panicked = FALSE

NextSeq ==
  \/ First /\ \E items \in ArgLists : CallNew(items)
  \/ First /\ \E s \in DOMAIN heap, items \in ArgLists : CallInsert(s, items) /\ Lists(items, <<>>)
  \/ First /\ \E s \in DOMAIN heap, items \in ArgLists : CallDelete(s, items) /\ Lists(items, <<>>)
  \/ First /\ \E s \in DOMAIN heap : CallPop(s) /\ Lists(<<>>, <<>>)
  \/ AfterNew /\ \E s, s2 \in DOMAIN heap : s # s2 /\ CallMerge(s, s2) /\ Lists(<<>>, <<>>)
  \/ First /\ \E s \in DOMAIN heap, items \in ArgLists : CallContainsAll(s, items)
  \/ First /\ \E s \in DOMAIN heap, items \in ArgLists : CallContainsAny(s, items)
  \/ (First \/ Again("List")) /\ \E s \in DOMAIN heap : CallList(s)
  \/ First /\ \E s \in DOMAIN heap : CallIntList(s)
  \/ First /\ \E s \in DOMAIN heap : CallIntUnsortedList(s)
  \/ First /\ \E s \in DOMAIN heap, stop \in StopLists : CallEach(s, stop)
  \/ First /\ \E s \in DOMAIN heap, stop \in StopLists : CallValues(s, stop)
  \/ Again("Values") /\ \E s \in DOMAIN heap : CallValues(s, <<>>)

SpecSeq == InitSeq /\ [][NextSeq]_vars

\* ---- calls on a pair of sets ---------------------------------------------------
\* out of a slice form: the tuple of the slices it returned
CallDifferenceSlice(s, s2) ==
  \E res \in DifferenceSlice(heap, s, s2) :
    /\ last' = Call("DifferenceSlice", s, s2, <<>>, TRUE, 0)
    /\ UNCHANGED <<heap, made>>
    /\ Lists(<<>>, res)

CallUnionSlice(s, s2) ==
  \E res \in UnionSlice(heap, s, s2) :
    /\ last' = Call("UnionSlice", s, s2, <<>>, TRUE, 0)
    /\ UNCHANGED <<heap, made>>
    /\ Lists(<<>>, res)

CallIntersectionSlice(s, s2) ==
  \E res \in IntersectionSlice(heap, s, s2) :
    /\ last' = Call("IntersectionSlice", s, s2, <<>>, TRUE, IntersectionProbes(heap, s, s2))
    /\ UNCHANGED <<heap, made>>
    /\ Lists(<<>>, res)

CallDiffSlice(s, s2) ==
  \E res \in DiffSlice(heap, s, s2) :
    /\ last' = Call("DiffSlice", s, s2, <<>>, TRUE, 0)
    /\ UNCHANGED <<heap, made>>
    /\ Lists(<<>>, res)

CallDiffVarySlice(s, s2) ==
  \E res \in DiffVarySlice(heap, s, s2) :
    /\ last' = Call("DiffVarySlice", s, s2, <<>>, TRUE, 0)
    /\ UNCHANGED <<heap, made>>
    /\ Lists(<<>>, res)

CallContains(s, item) ==
  /\ last' = Call("Contains", s, 0, <<>>, Contains(heap, s, item), 0)
  /\ UNCHANGED <<heap, made>>
  /\ Lists(<<item>>, <<>>)

CallLen(s) ==
  /\ last' = Call("Len", s, 0, <<>>, TRUE, Len_(heap, s))
  /\ UNCHANGED <<heap, made>>
  /\ Lists(<<>>, <<>>)

\* SpecPair: two sets a and b drawn from the subsets of Val, and one call of
\* any operation of Set[T], with either set as receiver and either as
\* argument, and with any list of at most two items over Val.
ShortLists == {items \in ArgLists : Len(items) <= 2}

InitPair ==
  /\ heap \in [1 .. 2 -> SUBSET Val]
  /\ last = NoCall
  /\ made = NoCall
  /\ args = <<>>
  /\ out = <<>>
  /\ prev = NoCall
  /\ panicked = FALSE

NextPair ==
  \/ First /\ \E s, s2 \in DOMAIN heap : CallDifferenceSlice(s, s2)
  \/ First /\ \E s, s2 \in DOMAIN heap : CallUnionSlice(s, s2)
  \/ First /\ \E s, s2 \in DOMAIN heap : CallIntersectionSlice(s, s2)
  \/ First /\ \E s, s2 \in DOMAIN heap : CallDiffSlice(s, s2)
  \/ First /\ \E s, s2 \in DOMAIN heap : CallDiffVarySlice(s, s2)
  \/ First /\ \E s, s2 \in DOMAIN heap : CallDifference(s, s2) /\ Lists(<<>>, <<>>)
  \/ First /\ \E s, s2 \in DOMAIN heap : CallUnion(s, s2) /\ Lists(<<>>, <<>>)
  \/ First /\ \E s, s2 \in DOMAIN heap : CallIntersection(s, s2) /\ Lists(<<>>, <<>>)
  \/ First /\ \E s, s2 \in DOMAIN heap : CallDiff(s, s2) /\ Lists(<<>>, <<>>)
  \/ First /\ \E s, s2 \in DOMAIN heap : CallDiffVary(s, s2) /\ Lists(<<>>, <<>>)
  \/ First /\ \E s, s2 \in DOMAIN heap : CallEqual(s, s2) /\ Lists(<<>>, <<>>)
  \/ First /\ \E s, s2 \in DOMAIN heap : CallIsSuperset(s, s2) /\ Lists(<<>>, <<>>)
  \/ First /\ \E s, s2 \in DOMAIN heap : CallIsSubset(s, s2) /\ Lists(<<>>, <<>>)
  \/ First /\ \E s \in DOMAIN heap, item \in Val : CallContains(s, item)
  \/ First /\ \E s \in DOMAIN heap, items \in ShortLists : CallContainsAll(s, items)
  \/ First /\ \E s \in DOMAIN heap, items \in ShortLists : CallContainsAny(s, items)
  \/ First /\ \E s \in DOMAIN heap : CallLen(s)
  \/ First /\ \E s \in DOMAIN heap : CallList(s)
  \/ First /\ \E s \in DOMAIN heap, items \in ShortLists : CallInsert(s, items) /\ Lists(items, <<>>)
  \/ First /\ \E s \in DOMAIN heap, items \in ShortLists : CallDelete(s, items) /\ Lists(items, <<>>)
  \/ First /\ \E s, s2 \in DOMAIN heap : CallMerge(s, s2) /\ Lists(<<>>, <<>>)
  \/ First /\ \E s \in DOMAIN heap : CallPop(s) /\ Lists(<<>>, <<>>)

SpecPair == InitPair /\ [][NextPair]_vars
\* ---- construction from the caller's storage -------------------------------------
\* SpecNew: the caller holds a mapping m (a Go map, object 1 of the heap; its
\* values play no part) and a slice of items (args).  It builds a set with
\* NewFrom(m) or New(items...), and then either writes to its own storage
\* (m[k] = v, delete(m, k), items[i] = v) or mutates the set.
CallNewFrom(m) ==
  LET r == NewFrom(heap, m)
  IN  /\ heap' = r.heap
      /\ last' = Call("NewFrom", 0, m, r.ret, TRUE, 0)
      /\ UNCHANGED <<made, args, out, panicked>>
      /\ prev' = last

\* the caller's slice stays in args; out: the items passed to the call
Keep(o) == out' = o /\ prev' = last /\ UNCHANGED <<args, panicked>>

\* m[k] = v
SourceAssign(m, k) ==
  /\ heap' = MapPut(heap, m, k)
  /\ last' = Call("m[k]=v", m, 0, <<>>, TRUE, k)
  /\ UNCHANGED made
  /\ Keep(<<>>)

\* delete(m, k)
SourceDelete(m, k) ==
  /\ heap' = MapDelete(heap, m, k)
  /\ last' = Call("delete(m,k)", m, 0, <<>>, TRUE, k)
  /\ UNCHANGED made
  /\ Keep(<<>>)

\* items[i] = v
SourceSetItem(i, v) ==
  /\ args' = [args EXCEPT ![i] = v]
  /\ last' = Call("items[i]=v", 0, 0, <<>>, TRUE, v)
  /\ prev' = last
  /\ UNCHANGED <<heap, made, out, panicked>>

Built == last.op \in {"New", "NewFrom"}

InitNew ==
  /\ heap \in [1 .. 1 -> SUBSET Val]
  /\ last = NoCall
  /\ made = NoCall
  /\ args = <<>>
  /\ out = <<>>
  /\ prev = NoCall
  /\ panicked = FALSE

NextNew ==
  \/ First /\ \E items \in ShortLists : CallNew(items)
  \/ First /\ CallNewFrom(1)
  \/ Built /\ \E k \in Val : SourceAssign(1, k)
  \/ Built /\ \E k \in Val : SourceDelete(1, k)
  \/ Built /\ \E i \in DOMAIN args, v \in Val : SourceSetItem(i, v)
  \/ Built /\ \E items \in StopLists : CallInsert(last.ret[1], items) /\ Keep(items)
  \/ Built /\ \E items \in StopLists : CallDelete(last.ret[1], items) /\ Keep(items)
  \/ Built /\ CallPop(last.ret[1]) /\ Keep(<<>>)

SpecNew == InitNew /\ [][NextNew]_vars
\* ---- construction by reflection ---------------------------------------------------
\* The option lists a caller passes to NewSetFrom.
OptLists ==
  {<<>>} \cup {<<WithComparator(cmp)>> : cmp \in Cmps}
         \cup {<<WithItems(<<item>>)>> : item \in Val}
         \cup {<<WithComparator(cmp), WithItems(<<item>>)>> : cmp \in Cmps, item \in Val}

\* A panic unwinds the call: nothing is returned, and the set under
\* construction is not reachable by the caller.
CallNewIntFrom(theMap) ==
  LET r == NewIntFrom(heap, theMap)
  IN  /\ heap' = r.heap
      /\ last' = Call("NewIntFrom", 0, theMap, r.ret, ~r.panic, 0)
      /\ panicked' = r.panic
      /\ args' = <<>>
      /\ prev' = last
      /\ UNCHANGED <<made, out>>

CallNewSetFrom(theMap, opts) ==
  LET r == NewSetFrom(heap, theMap, opts)
  IN  /\ heap' = r.heap
      /\ last' = Call("NewSetFrom", 0, theMap, r.ret, ~r.panic, 0)
      /\ panicked' = r.panic
      /\ args' = opts
      /\ prev' = last
      /\ UNCHANGED <<made, out>>

InitFrom ==
  /\ heap = <<>>
  /\ last = NoCall
  /\ made = NoCall
  /\ args = <<>>
  /\ out = <<>>
  /\ prev = NoCall
  /\ panicked = FALSE

NextFrom ==
  \/ First /\ \E theMap \in DynValues : CallNewIntFrom(theMap)
  \/ First /\ \E theMap \in DynValues, opts \in OptLists : CallNewSetFrom(theMap, opts)

SpecFrom == InitFrom /\ [][NextFrom]_vars
\* ---- draining a set by Pop --------------------------------------------------------
\* Object 1 is the set that is drained; object 2 holds its original members
\* and is never the receiver of a call.  out: the (value, found) pairs the
\* calls returned, in order.  MaxMiss bounds the calls after the last member.
MaxMiss == 2

Original == 2

Drained == 1

DrainPop ==
  /\ Len(out) < Len_(heap, Original) + MaxMiss
  /\ CallPop(Drained)
  /\ out' = Append(out, [val |-> last'.val, ok |-> last'.ok])
  /\ prev' = last
  /\ UNCHANGED <<args, panicked>>

InitDrain ==
  /\ heap \in {h \in [1 .. 2 -> SUBSET Val] : h[Drained] = h[Original]}
  /\ last = NoCall
  /\ made = NoCall
  /\ args = <<>>
  /\ out = <<>>
  /\ prev = NoCall
  /\ panicked = FALSE

NextDrain == DrainPop

SpecDrain == InitDrain /\ [][NextDrain]_vars
\* ---- the opaque-value Set: two sets, an operation, List on its result -------------
CallOpaqueDifference(s, s2) ==
  LET r == OpaqueDifference(heap, s, s2)
  IN  /\ heap' = r.heap
      /\ last' = Call("Difference", s, s2, r.ret, TRUE, 0)
      /\ UNCHANGED made
      /\ Lists(<<>>, <<>>)

CallOpaqueUnion(s, s2) ==
  LET r == OpaqueUnion(heap, s, s2)
  IN  /\ heap' = r.heap
      /\ last' = Call("Union", s, s2, r.ret, TRUE, 0)
      /\ UNCHANGED made
      /\ Lists(<<>>, <<>>)

CallOpaqueIntersection(s, s2) ==
  LET r == OpaqueIntersection(heap, s, s2)
  IN  /\ heap' = r.heap
      /\ last' = Call("Intersection", s, s2, r.ret, TRUE, 0)
      /\ UNCHANGED made
      /\ Lists(<<>>, <<>>)

CallOpaqueClone(s) ==
  LET r == OpaqueClone(heap, s)
  IN  /\ heap' = r.heap
      /\ last' = Call("Clone", s, 0, r.ret, TRUE, 0)
      /\ UNCHANGED made
      /\ Lists(<<>>, <<>>)

CallOpaqueList(s) ==
  \E res \in OpaqueList(heap, s) :
    /\ last' = Call("List", s, 0, <<>>, TRUE, 0)
    /\ UNCHANGED <<heap, made>>
    /\ Lists(<<>>, res)

InitOpaque ==
  /\ heap \in [1 .. 2 -> [m : SUBSET Val, cmp : Cmps \cup {NoCmp}]]
  /\ last = NoCall
  /\ made = NoCall
  /\ args = <<>>
  /\ out = <<>>
  /\ prev = NoCall
  /\ panicked = FALSE

\* List is called on the set the first call returned, if it has a comparator
Returned ==
  /\ prev = NoCall
  /\ last.op \in {"Difference", "Union", "Intersection", "Clone"}
  /\ heap[last.ret[1]].cmp # NoCmp

NextOpaque ==
  \/ First /\ \E s, s2 \in DOMAIN heap : CallOpaqueDifference(s, s2)
  \/ First /\ \E s, s2 \in DOMAIN heap : CallOpaqueUnion(s, s2)
  \/ First /\ \E s, s2 \in DOMAIN heap : CallOpaqueIntersection(s, s2)
  \/ First /\ \E s \in DOMAIN heap : CallOpaqueClone(s)
  \/ Returned /\ CallOpaqueList(last.ret[1])

SpecOpaque == InitOpaque /\ [][NextOpaque]_vars
\* ---- the zero value of Set[T] ---------------------------------------------------
\* Set[T] is a map type, and its zero value (var s Set[T]) is the nil map.
\* Go reads a nil map as an empty one (len, lookup, range, delete), and
\* panics on an assignment to one of its entries.  The nil map is kept at
\* address NilRef with no keys; an operation panics when it assigns to it,
\* which is when, run on an empty map in its place, it leaves a key there.
NilRef == 1

\* the outcome of a call whose assignments, if any, are those of r
OnZero(op, s, s2, r) ==
  IF r.heap[NilRef] # {}
  THEN /\ panicked' = TRUE
       /\ last' = Call(op, s, s2, <<>>, FALSE, 0)
       /\ UNCHANGED heap
  ELSE /\ panicked' = FALSE
       /\ last' = Call(op, s, s2, r.ret, TRUE, 0)
       /\ heap' = r.heap

ZeroInsert(s, items) ==
  /\ OnZero("Insert", s, 0, Insert(heap, s, items))
  /\ args' = items /\ out' = <<>> /\ prev' = last
  /\ UNCHANGED made

ZeroMerge(s, s2) ==
  /\ OnZero("Merge", s, s2, Merge(heap, s, s2))
  /\ args' = <<>> /\ out' = <<>> /\ prev' = last
  /\ UNCHANGED made

\* SpecZero: the zero value and a set b made by New, and one call of any
\* operation of Set[T] with either as receiver and either as argument.
InitZero ==
  /\ heap \in {h \in [1 .. 2 -> SUBSET Val] : h[NilRef] = {}}
  /\ last = NoCall
  /\ made = NoCall
  /\ args = <<>>
  /\ out = <<>>
  /\ prev = NoCall
  /\ panicked = FALSE

NextZero ==
  \/ First /\ \E s \in DOMAIN heap, items \in ShortLists : ZeroInsert(s, items)
  \/ First /\ \E s, s2 \in DOMAIN heap : ZeroMerge(s, s2)
  \/ First /\ \E s \in DOMAIN heap, items \in ShortLists : CallDelete(s, items) /\ Lists(items, <<>>)
  \/ First /\ \E s \in DOMAIN heap : CallPop(s) /\ Lists(<<>>, <<>>)
  \/ First /\ \E s \in DOMAIN heap, item \in Val : CallContains(s, item)
  \/ First /\ \E s \in DOMAIN heap, items \in ShortLists : CallContainsAll(s, items)
  \/ First /\ \E s \in DOMAIN heap, items \in ShortLists : CallContainsAny(s, items)
  \/ First /\ \E s, s2 \in DOMAIN heap : CallUnion(s, s2) /\ Lists(<<>>, <<>>)
  \/ First /\ \E s, s2 \in DOMAIN heap : CallIntersection(s, s2) /\ Lists(<<>>, <<>>)
  \/ First /\ \E s, s2 \in DOMAIN heap : CallDifference(s, s2) /\ Lists(<<>>, <<>>)
  \/ First /\ \E s, s2 \in DOMAIN heap : CallDiff(s, s2) /\ Lists(<<>>, <<>>)
  \/ First /\ \E s, s2 \in DOMAIN heap : CallIsSubset(s, s2) /\ Lists(<<>>, <<>>)
  \/ First /\ \E s, s2 \in DOMAIN heap : CallIsSuperset(s, s2) /\ Lists(<<>>, <<>>)
  \/ First /\ \E s, s2 \in DOMAIN heap : CallEqual(s, s2) /\ Lists(<<>>, <<>>)
  \/ First /\ \E s \in DOMAIN heap : CallList(s)
  \/ First /\ \E s \in DOMAIN heap, stop \in StopLists : CallEach(s, stop)
  \/ First /\ \E s \in DOMAIN heap : CallClone(s) /\ Lists(<<>>, <<>>)
  \/ First /\ \E s \in DOMAIN heap : CallLen(s)

SpecZero == InitZero /\ [][NextZero]_vars
\* ---- properties ---------------------------------------------------------------
\* In a step, heap is the heap the call was made on and heap' the heap it
\* left; last' names the call.  A and B are the operands as they were at the
\* call.
Mutators == {"Insert", "Delete", "Pop", "Merge"}

C3_Union ==
  [][last'.op = "Union" =>
       LET A == heap[last'.recv]
           B == heap[last'.arg]
           ab == last'.ret[1]
           rev == Union(heap', last'.arg, last'.recv)
       IN  /\ heap'[ab] = A \cup B
           /\ Equal(rev.heap, ab, rev.ret[1])
           /\ Len_(heap', ab) <= Len_(heap, last'.recv) + Len_(heap, last'.arg)]_vars

\* {1,2,3,4}.Union({3,4,5,6}) has returned {1,2,3,4,5,6}: fewer than 4 + 4
C3_Witness ==
  /\ last.op = "Union" /\ last.recv = 1 /\ last.arg = 2
  /\ heap[1] = {1, 2, 3, 4} /\ heap[2] = {3, 4, 5, 6}
  /\ heap[last.ret[1]] = {1, 2, 3, 4, 5, 6}

\* C4: A.Intersection(B) contains exactly the elements present in both A and
\* B, and A.Intersection(B).Equal(B.Intersection(A)) is true, whichever
\* operand is the larger one.
C4_Intersection ==
  [][last'.op = "Intersection" =>
       LET A == heap[last'.recv]
           B == heap[last'.arg]
           ab == last'.ret[1]
           rev == Intersection(heap', last'.arg, last'.recv)
       IN  /\ heap'[ab] = A \cap B
           /\ Equal(rev.heap, ab, rev.ret[1])]_vars

\* the receiver is the larger operand and the intersection is a proper,
\* non-empty part of the smaller one
C4_Witness ==
  /\ last.op = "Intersection" /\ last.recv # last.arg
  /\ Len_(heap, last.recv) > Len_(heap, last.arg)
  /\ heap[last.ret[1]] # {}
  /\ heap[last.ret[1]] # heap[last.arg]
  /\ heap[last.ret[1]] = heap[last.recv] \cap heap[last.arg]

\* C5: A.Difference(B) contains exactly the elements of A that are not in B,
\* and A.Difference(B) has the same members as B.Difference(A) only when A
\* and B have the same members.
C5_Difference ==
  [][last'.op = "Difference" =>
       LET A == heap[last'.recv]
           B == heap[last'.arg]
           ab == last'.ret[1]
           rev == Difference(heap', last'.arg, last'.recv)
       IN  /\ heap'[ab] = A \ B
           /\ (rev.heap[ab] = rev.heap[rev.ret[1]]) => (A = B)]_vars

\* {1,2,3}.Difference({1,2,4,5}) has returned {3}
C5_Witness ==
  /\ last.op = "Difference" /\ last.recv = 1 /\ last.arg = 2
  /\ heap[1] = {1, 2, 3} /\ heap[2] = {1, 2, 4, 5}
  /\ heap[last.ret[1]] = {3}

\* C6: s.Merge(other) mutates s in place so that afterwards s contains exactly
\* the elements that were in s or in other before the call, returns s itself
\* (the same map object, no new one), and leaves other unchanged when other
\* is a distinct set.
C6_Merge ==
  [][last'.op = "Merge" =>
       LET s == last'.recv
           other == last'.arg
       IN  /\ heap'[s] = heap[s] \cup heap[other]
           /\ last'.ret = <<s>>
           /\ Len(heap') = Len(heap)
           /\ other # s => heap'[other] = heap[other]]_vars

\* after a Merge with a distinct, non-empty argument the receiver holds the
\* argument's elements and others of its own, six or more in all
C6_Witness ==
  /\ last.op = "Merge" /\ last.recv # last.arg
  /\ last.ret = <<last.recv>>
  /\ heap[last.arg] # {}
  /\ heap[last.arg] # heap[last.recv]
  /\ heap[last.arg] \subseteq heap[last.recv]
  /\ Len_(heap, last.recv) >= 6

\* C7: A.Equal(B) is true iff A.IsSubset(B) and B.IsSubset(A) and |A| = |B|,
\* i.e. iff A and B have exactly the same members; A.Equal(B) = B.Equal(A),
\* and two empty sets are equal.
C7_Equal ==
  last.op = "Equal" =>
    LET a == last.recv
        b == last.arg
    IN  /\ last.ok = (/\ IsSubset(heap, a, b)
                      /\ IsSubset(heap, b, a)
                      /\ Len_(heap, a) = Len_(heap, b))
        /\ last.ok = (heap[a] = heap[b])
        /\ last.ok = Equal(heap, b, a)
        /\ (heap[a] = {} /\ heap[b] = {}) => last.ok

\* Equal has answered false for two overlapping sets of the same size
C7_Witness ==
  /\ last.op = "Equal" /\ last.recv # last.arg
  /\ ~last.ok
  /\ Len_(heap, last.recv) = Len_(heap, last.arg)
  /\ heap[last.recv] \cap heap[last.arg] # {}

C9_CloneIndependent ==
  [][/\ last'.op = "Clone" => heap'[last'.ret[1]] = heap[last'.recv]
     /\ (made.op = "Clone" /\ last'.op \in Mutators) =>
          LET s == made.recv
              c == made.ret[1]
          IN  /\ last'.recv = c => heap'[s] = heap[s]
              /\ last'.recv = s => heap'[c] = heap[c]]_vars

\* the clone has been mutated and no longer has the members of its original
C9_Witness ==
  /\ made.op = "Clone"
  /\ last.op \in Mutators /\ last.recv = made.ret[1]
  /\ heap[made.ret[1]] # heap[made.recv]

Range(f) == {f[i] : i \in DOMAIN f}

\* C10: the sets returned by Union, Intersection, Difference, Diff and
\* DiffVary share no storage with their operands: a later Insert, Delete, Pop
\* or Merge on a result leaves both operands unchanged, and one on an operand
\* leaves every returned set unchanged (also with an empty operand, and with
\* the same set as both operands).
C10_ResultsIndependent ==
  [][(/\ made.op \in {"Union", "Intersection", "Difference", "Diff", "DiffVary"}
      /\ last'.op \in Mutators) =>
       LET operands == {made.recv, made.arg}
           results == Range(made.ret)
       IN  /\ last'.recv \in results => \A o \in operands : heap'[o] = heap[o]
           /\ last'.recv \in operands => \A x \in results : heap'[x] = heap[x]]_vars

\* the remained set of a Diff has been mutated and is no longer the
\* intersection of the operands
C10_Witness ==
  /\ made.op = "Diff"
  /\ last.op \in Mutators /\ last.recv = made.ret[3]
  /\ heap[made.ret[3]] # heap[made.recv] \cap heap[made.arg]

\* ---- enumeration properties ----------------------------------------------------
Ascending(res) == \A i, j \in DOMAIN res : i < j => res[i] < res[j]

\* C11: Set[T].List() returns all elements of the set, as a slice sorted in
\* the natural ascending order of T.  Set.List appends the keys in range
\* order and never sorts them: the statement does not hold of the code.
C11_ListSorted ==
  last.op = "List" =>
    /\ Range(out) = heap[last.recv]
    /\ Len(out) = Cardinality(heap[last.recv])
    /\ Ascending(out)

\* C12: List() is deterministic: two calls on the same unmodified set return
\* the same sequence, element for element.  The two range statements of two
\* calls of Set.List may yield the keys in different orders: the statement
\* does not hold of the code.
C12_ListDeterministic ==
  [][(/\ last.op = "List" /\ last'.op = "List"
      /\ last'.recv = last.recv
      /\ heap'[last'.recv] = heap[last.recv]) => out' = out]_vars

Count(res, x) == Cardinality({i \in DOMAIN res : res[i] = x})

\* C13: Int.List() returns every member exactly once, in strictly ascending
\* order, and Int.UnsortedList() returns the same multiset of elements as
\* Int.List().
C13_IntList ==
  /\ last.op = "IntList" =>
       /\ Ascending(out)
       /\ \A x \in Val : Count(out, x) = (IF x \in heap[last.recv] THEN 1 ELSE 0)
  /\ last.op = "IntUnsortedList" =>
       \A sorted \in IntList(heap, last.recv) :
         \A x \in Val : Count(out, x) = Count(sorted, x)

\* a set of four members has been listed, as in the {13,12,11,1} of
\* TestIntSetList: whatever the range order, the list is the ascending one
C13_Witness ==
  /\ last.op = "IntList"
  /\ Cardinality(heap[last.recv]) = 4
  /\ out = <<1, 2, 3, 4>>

\* ---- properties of single calls ------------------------------------------------
\* C14: Pop() on an empty set returns (zero value, false) and leaves the set
\* empty; on a non-empty set it returns (x, true) where x was a member before
\* the call and is none after it, every other member is still present, and
\* Len() has decreased by exactly 1.
C14_Pop ==
  [][last'.op = "Pop" =>
       LET s == last'.recv
           x == last'.val
       IN  /\ heap[s] = {} =>
                /\ ~last'.ok /\ x = 0
                /\ heap'[s] = {}
           /\ heap[s] # {} =>
                /\ last'.ok
                /\ Contains(heap, s, x) /\ ~Contains(heap', s, x)
                /\ \A y \in heap[s] \ {x} : Contains(heap', s, y)
                /\ Len_(heap', s) = Len_(heap, s) - 1]_vars

\* Pop on {1,2,4} has returned one of 1, 2, 4 and left the other two
C14_Witness ==
  /\ last.op = "Pop" /\ last.ok
  /\ Len_(heap, last.recv) = 2
  /\ heap[last.recv] \cup {last.val} = {1, 2, 4}

\* C15: s.Insert(items...) makes every listed item a member, leaves the
\* membership of every unlisted value unchanged, is idempotent (inserting the
\* items again, or listing one of them once more in the same call, gives the
\* same membership), and returns the receiver itself: no set is made, and an
\* Insert through the returned set is visible through s.
C15_Insert ==
  [][last'.op = "Insert" =>
       LET s == last'.recv
           items == args'
       IN  /\ \A i \in DOMAIN items : Contains(heap', s, items[i])
           /\ \A x \in Val \ Range(items) :
                Contains(heap', s, x) <=> Contains(heap, s, x)
           /\ Insert(heap', s, items).heap = heap'
           /\ \A i \in DOMAIN items :
                Insert(heap, s, Append(items, items[i])).heap = heap'
           /\ last'.ret = <<s>>
           /\ DOMAIN heap' = DOMAIN heap
           /\ \A y \in Val :
                Contains(Insert(heap', last'.ret[1], <<y>>).heap, s, y)]_vars

\* Insert(3, 3) on a set that holds 1: the item repeated in one call
C15_Witness ==
  /\ last.op = "Insert"
  /\ args = <<3, 3>>
  /\ heap[last.recv] = {1, 3}

\* C16: s.Delete(items...) removes every listed item that is a member, is a
\* silent no-op for listed items that are absent (a call whose items are all
\* absent changes nothing), and leaves the membership of every unlisted value
\* unchanged.
C16_Delete ==
  [][last'.op = "Delete" =>
       LET s == last'.recv
           items == args'
       IN  /\ \A i \in DOMAIN items : ~Contains(heap', s, items[i])
           /\ (\A i \in DOMAIN items : ~Contains(heap, s, items[i])) => heap' = heap
           /\ \A x \in Val \ Range(items) :
                Contains(heap', s, x) <=> Contains(heap, s, x)
           /\ DOMAIN heap' = DOMAIN heap]_vars

\* Delete(2, 4) has left a set that holds 1 and 3
C16_Witness ==
  /\ last.op = "Delete"
  /\ args = <<2, 4>>
  /\ heap[last.recv] = {1, 3}

\* C17: the set invariant.  After New, Insert, Delete, Pop and Merge every
\* value is a member at most once: Len() is the number of distinct values x
\* with Contains(x), an enumeration yields no value twice and Len() values in
\* all, and items repeated in a list (New(2,2,1)) or held by both sets of a
\* Merge count once.
C17_SetInvariant ==
  [][LET s == last'.recv
         Members(h, a) == {x \in Val : Contains(h, a, x)}
     IN  /\ \A a \in DOMAIN heap' : Len_(heap', a) = Cardinality(Members(heap', a))
         /\ last'.op = "New" =>
              Len_(heap', last'.ret[1]) = Cardinality(Range(args'))
         /\ last'.op = "Insert" =>
              Len_(heap', s) = Cardinality(Members(heap, s) \cup Range(args'))
         /\ last'.op = "Delete" =>
              Len_(heap', s) = Cardinality(Members(heap, s) \ Range(args'))
         /\ last'.op = "Pop" =>
              Len_(heap', s) = Cardinality(Members(heap, s) \ {last'.val})
         /\ last'.op = "Merge" =>
              Len_(heap', s) =
                Cardinality(Members(heap, s) \cup Members(heap, last'.arg))
         /\ last'.op \in {"List", "IntUnsortedList"} =>
              /\ \A x \in Val : Count(out', x) <= 1
              /\ Len(out') = Len_(heap', s)]_vars

\* New(2, 2, 1) has made a set of Len() 2
C17_Witness ==
  /\ last.op = "New"
  /\ args = <<2, 2, 1>>
  /\ Len_(heap, last.ret[1]) = 2

\* C18: ContainsAll(items...) is true iff every listed item is a member, and
\* true for an empty list; ContainsAny(items...) is true iff at least one
\* listed item is a member, and false for an empty list; on empty and
\* non-empty sets alike.
C18_ContainsAllAny ==
  LET s == last.recv
  IN  /\ last.op = "ContainsAll" =>
           /\ last.ok <=> \A i \in DOMAIN args : Contains(heap, s, args[i])
           /\ args = <<>> => last.ok
      /\ last.op = "ContainsAny" =>
           /\ last.ok <=> \E i \in DOMAIN args : Contains(heap, s, args[i])
           /\ args = <<>> => ~last.ok

\* ContainsAny(3, 1) on {1, 2}: the first item is absent, the second a member
C18_Witness ==
  /\ last.op = "ContainsAny" /\ last.ok
  /\ args = <<3, 1>>
  /\ heap[last.recv] = {1, 2}

\* ---- traversal properties ------------------------------------------------------
\* C19: Each(visit) calls visit only on members of the set and at most once
\* per member; once visit has returned false no further element is visited;
\* if visit returns true every time, every member is visited exactly once;
\* the traversal leaves the set unchanged.
C19_Each ==
  [][last'.op = "Each" =>
       LET s == last'.recv
           visited == out'
           stop == args'
       IN  /\ \A i \in DOMAIN visited : Contains(heap, s, visited[i])
           /\ \A x \in Val : Count(visited, x) <= 1
           /\ \A i \in DOMAIN visited :
                ~Visit(stop, visited[i]) => i = Len(visited)
           /\ (\A i \in DOMAIN visited : Visit(stop, visited[i])) =>
                \A x \in heap[s] : Count(visited, x) = 1
           /\ heap' = heap]_vars

\* Test_Each: on New(1, 2, 3, 4) with visit returning item != 3, the traversal
\* has visited 1 and 3 and stopped there, 2 and 4 unvisited
C19_Witness ==
  /\ last.op = "Each" /\ ~last.ok
  /\ args = <<3>>
  /\ heap[last.recv] = {1, 2, 3, 4}
  /\ out = <<1, 3>>

\* C20: a range over s.Values() is observably equivalent to Each: for each
\* order of the keys and each consumer the two hand over the same items and
\* end alike, and the run observed is a run of Each (both compared on the
\* first traversal of each set with each consumer).  One traversal yields
\* each member at most once, all members exactly once if the consumer never
\* stops, and nothing after the consumer has stopped; the set is unchanged,
\* also when the traversal is abandoned; and a traversal started after an
\* abandoned one yields all members again if its consumer never stops.
C20_ValuesAsEach ==
  [][last'.op = "Values" =>
       LET s == last'.recv
           yielded == out'
           stop == args'
           orders == RangeOrders(heap[s])
       IN  /\ First =>
                /\ \A order \in orders :
                     ValuesLoop(order, stop, <<>>) = EachLoop(order, stop, <<>>)
                /\ \E order \in orders :
                     EachLoop(order, stop, <<>>) = [out |-> yielded, ok |-> last'.ok]
           /\ \A x \in Val : Count(yielded, x) <= 1
           /\ stop = <<>> => \A x \in heap[s] : Count(yielded, x) = 1
           /\ \A i \in DOMAIN yielded :
                ~Visit(stop, yielded[i]) => i = Len(yielded)
           /\ heap' = heap
           /\ (last.op = "Values" /\ ~last.ok /\ stop = <<>>) =>
                /\ last'.ok
                /\ Range(yielded) = heap[s]]_vars

\* Test_Iter_Values_Return, then Test_Iter_Values on the same set: a range
\* over Values() was left at 3 before its end, and a second range has
\* yielded all four members
C20_Witness ==
  /\ prev.op = "Values" /\ ~prev.ok
  /\ last.op = "Values" /\ last.ok
  /\ args = <<>>
  /\ heap[last.recv] = {1, 2, 3, 4}
  /\ Len(out) = 4

\* ---- properties of the slice forms ---------------------------------------------
NoDup(res) == \A i, j \in DOMAIN res : i # j => res[i] # res[j]

\* the members of the i-th set returned by an algebra call r
Members(r, i) == r.heap[r.ret[i]]

\* the slice res holds the members of the i-th set of r, none twice
SameAs(res, r, i) ==
  /\ NoDup(res)
  /\ Range(res) = Members(r, i)
  /\ Len(res) = Len_(r.heap, r.ret[i])

\* C21: the slice forms agree with the set forms: UnionSlice,
\* IntersectionSlice, DifferenceSlice, DiffSlice and DiffVarySlice return
\* slices that hold no element twice and whose element sets are the sets
\* returned by Union, Intersection, Difference, Diff and DiffVary on the same
\* operands, so that len(A.UnionSlice(B)) = A.Union(B).Len().
C21_SliceForms ==
  LET s == last.recv
      s2 == last.arg
  IN  /\ last.op = "UnionSlice" => SameAs(out[1], Union(heap, s, s2), 1)
      /\ last.op = "IntersectionSlice" =>
           SameAs(out[1], Intersection(heap, s, s2), 1)
      /\ last.op = "DifferenceSlice" =>
           SameAs(out[1], Difference(heap, s, s2), 1)
      /\ last.op = "DiffSlice" =>
           \A i \in 1 .. 3 : SameAs(out[i], Diff(heap, s, s2), i)
      /\ last.op = "DiffVarySlice" =>
           \A i \in 1 .. 2 : SameAs(out[i], DiffVary(heap, s, s2), i)

\* UnionSlice of {1, 2} and {2, 3}, which share 2, has returned three elements
C21_Witness ==
  /\ last.op = "UnionSlice"
  /\ heap[last.recv] = {1, 2} /\ heap[last.arg] = {2, 3}
  /\ Len(out[1]) = 3

\* ---- further properties of the algebra -----------------------------------------
\* C22: s.DiffVary(other) returns the added and removed sets that
\* s.Diff(other) returns, added = other minus s and removed = s minus other,
\* and no third set.
C22_DiffVaryAsDiff ==
  [][last'.op = "DiffVary" =>
       LET s == last'.recv
           other == last'.arg
           d == Diff(heap, s, other)
       IN  /\ Len(last'.ret) = 2
           /\ heap'[last'.ret[1]] = Members(d, 1)
           /\ heap'[last'.ret[2]] = Members(d, 2)
           /\ \A x \in Elem :
                /\ Contains(heap', last'.ret[1], x) <=>
                     (Contains(heap, other, x) /\ ~Contains(heap, s, x))
                /\ Contains(heap', last'.ret[2], x) <=>
                     (Contains(heap, s, x) /\ ~Contains(heap, other, x))]_vars

\* the example of the source: s1 = {1,3,5,7}, s2 = {3,4,5,6} gives
\* added = {4,6} and removed = {1,7}
C22_Witness ==
  /\ last.op = "DiffVary"
  /\ heap[last.recv] = {1, 3, 5, 7} /\ heap[last.arg] = {3, 4, 5, 6}
  /\ heap[last.ret[1]] = {4, 6}
  /\ heap[last.ret[2]] = {1, 7}

\* ---- construction ---------------------------------------------------------------
\* C23: New(items...) and NewFrom(mapping) build a fresh set whose members
\* are the listed items, or the keys of the mapping, and which shares no
\* storage with the caller's input: writes to the mapping or to the item
\* list after the call leave the set as it is, and Insert, Delete and Pop on
\* the set leave the mapping and the item list as they are.
C23_NewFresh ==
  [][/\ last'.op = "New" =>
          /\ last'.ret[1] \notin DOMAIN heap
          /\ \A x \in Val : Contains(heap', last'.ret[1], x) <=> x \in Range(args')
          /\ \A a \in DOMAIN heap : heap'[a] = heap[a]
     /\ last'.op = "NewFrom" =>
          /\ last'.ret[1] \notin DOMAIN heap
          /\ heap'[last'.ret[1]] = heap[last'.arg]
          /\ \A a \in DOMAIN heap : heap'[a] = heap[a]
     /\ Built =>
          LET set == last.ret[1]
          IN  /\ last'.op \in {"m[k]=v", "delete(m,k)", "items[i]=v"} =>
                   heap'[set] = heap[set]
              /\ last'.op \in Mutators =>
                   /\ last'.recv = set
                   /\ \A a \in DOMAIN heap \ {set} : heap'[a] = heap[a]
                   /\ args' = args]_vars

\* after NewFrom(m) the caller has deleted a key from m, and the set still
\* holds it
C23_Witness ==
  /\ prev.op = "NewFrom"
  /\ last.op = "delete(m,k)"
  /\ heap[prev.ret[1]] = {1, 2, 3}
  /\ heap[prev.arg] = {1, 3}

\* ---- failure ---------------------------------------------------------------------
\* C24: every operation of Set[T] is a total function: for every value of
\* type Set[T] as receiver and every well-typed argument it completes
\* normally.  Insert and Merge assign to the receiver's entries, and the
\* zero value of Set[T] is a nil map: the statement does not hold of the
\* code.
C24_Total == ~panicked

\* the items the WithItems options of a list insert
OptItems(opts) ==
  UNION {{opts[i].items[j] : j \in DOMAIN opts[i].items} : i \in DOMAIN opts}

\* C25, as stated: in NewIntFrom and NewSetFrom a value that is not a map
\* makes the call panic and return no set, and every map makes the call
\* return the set of the map's keys.
C25_AnyMap ==
  last.op \in {"NewIntFrom", "NewSetFrom"} =>
    IF last.arg.kind # "Map"
    THEN panicked /\ last.ret = <<>>
    ELSE /\ ~panicked
         /\ last.ret # <<>>
         /\ IF last.op = "NewIntFrom"
            THEN heap[last.ret[1]] = last.arg.keys
            ELSE heap[last.ret[1]].m = last.arg.keys

\* C25, amended: a value that is not a map makes the call panic and return
\* no set; NewIntFrom of a map with a key that is not an int panics as well;
\* every other map makes the call return the set of the map's keys, which
\* for NewSetFrom also holds the items of the WithItems options.
C25_FromMap ==
  /\ last.op = "NewIntFrom" =>
       IF last.arg.kind # "Map" \/ (last.arg.key # "int" /\ last.arg.keys # {})
       THEN panicked /\ last.ret = <<>>
       ELSE ~panicked /\ last.ret # <<>> /\ heap[last.ret[1]] = last.arg.keys
  /\ last.op = "NewSetFrom" =>
       IF last.arg.kind # "Map"
       THEN panicked /\ last.ret = <<>>
       ELSE /\ ~panicked
            /\ last.ret # <<>>
            /\ heap[last.ret[1]].m = last.arg.keys \cup OptItems(args)

C25_Witness ==
  /\ last.op = "NewIntFrom"
  /\ last.arg.kind = "Slice"
  /\ panicked
  /\ last.ret = <<>>

Min(a, b) == IF a < b THEN a ELSE b

\* C26: Intersection and IntersectionSlice walk the operand with fewer
\* elements and probe the other one, so a call makes min(|s|, |s2|)
\* membership probes, whichever operand is the receiver.
C26_IntersectionProbes ==
  last.op \in {"Intersection", "IntersectionSlice"} =>
    last.val = Min(Len_(heap, last.recv), Len_(heap, last.arg))

C26_Witness ==
  /\ last.op = "IntersectionSlice"
  /\ Len_(heap, last.recv) = 3
  /\ Len_(heap, last.arg) = 1
  /\ last.val = 1

\* C27: from a set of n members, with Pop as the only operation, exactly
\* the first n calls return found = true, their values are pairwise distinct
\* and are the original members, the set is empty after the n-th call, and
\* every later call returns the zero value and found = false.
C27_Drain ==
  LET n == Len_(heap, Original)
      calls == Len(out)
      found == 1 .. Min(calls, n)
  IN  /\ \A i \in 1 .. calls : out[i].ok <=> i <= n
      /\ \A i, j \in found : i # j => out[i].val # out[j].val
      /\ {out[i].val : i \in found} \subseteq heap[Original]
      /\ heap[Drained] = heap[Original] \ {out[i].val : i \in found}
      /\ calls >= n => /\ {out[i].val : i \in found} = heap[Original]
                       /\ heap[Drained] = {}
      /\ \A i \in 1 .. calls : i > n => out[i] = [val |-> 0, ok |-> FALSE]

C27_Witness ==
  /\ heap[Original] = {1, 2, 3}
  /\ Len(out) = 5
  /\ out[3].ok
  /\ {out[i].val : i \in 1 .. 3} = {1, 2, 3}
  /\ out[5] = [val |-> 0, ok |-> FALSE]
  /\ heap[Drained] = {}

Queries ==
  {"Contains", "ContainsAll", "ContainsAny", "IsSubset", "IsSuperset", "Equal",
   "Len", "List", "Union", "Intersection", "Difference", "Diff", "DiffVary",
   "UnionSlice", "IntersectionSlice", "DifferenceSlice", "DiffSlice",
   "DiffVarySlice"}

\* C28: the queries, the algebra operations and their slice forms leave the
\* receiver and the argument as they were; Insert, Delete, Merge and Pop are
\* the only operations that change a set, and the only set they change is
\* their receiver.
C28_Frame ==
  [][First =>
       /\ last'.op \in Queries \cup Mutators
       /\ last'.op \in Queries => \A s \in DOMAIN heap : heap'[s] = heap[s]
       /\ last'.op \in Mutators =>
            \A s \in DOMAIN heap : s # last'.recv => heap'[s] = heap[s]]_vars

C28_Witness ==
  /\ last.op = "Merge"
  /\ last.recv = 1
  /\ last.arg = 2
  /\ heap[1] = {1, 2, 3}
  /\ heap[2] = {3}

\* C29: with the same set A as receiver and argument, Merge leaves the
\* members of A as they were, Union and Intersection return sets with the
\* members of A, Difference returns an empty set, Diff returns (empty,
\* empty, the members of A), and Equal, IsSubset and IsSuperset return true.
C29_Self ==
  [][First /\ last'.recv = last'.arg =>
       LET A == heap[last'.recv]
           op == last'.op
           ret == last'.ret
       IN  /\ op = "Merge" => heap'[last'.recv] = A
           /\ op \in {"Union", "Intersection"} => heap'[ret[1]] = A
           /\ op = "Difference" => heap'[ret[1]] = {}
           /\ op = "Diff" => /\ heap'[ret[1]] = {}
                             /\ heap'[ret[2]] = {}
                             /\ heap'[ret[3]] = A
           /\ op \in {"Equal", "IsSubset", "IsSuperset"} => last'.ok]_vars

C29_Witness ==
  /\ last.op = "Diff"
  /\ last.recv = 1
  /\ last.arg = 1
  /\ heap[1] = {2, 4}
  /\ heap[last.ret[1]] = {}
  /\ heap[last.ret[2]] = {}
  /\ heap[last.ret[3]] = {2, 4}

\* C30: in the opaque-value Set the sets that Union, Intersection,
\* Difference and Clone return carry the comparator of the receiver, not
\* that of the argument, whichever operand is larger or empty, and List on
\* such a result returns its members in the receiver's order.
C30_ReceiverComparator ==
  /\ last.op \in {"Difference", "Union", "Intersection", "Clone"} =>
       heap[last.ret[1]].cmp = heap[last.recv].cmp
  /\ last.op = "List" =>
       /\ Range(out) = heap[last.recv].m
       /\ \A i, j \in DOMAIN out :
            i < j => Compare(heap[prev.recv].cmp, out[i], out[j]) < 0

C30_Witness ==
  /\ last.op = "List"
  /\ prev.op = "Intersection"
  /\ heap[prev.recv] = [m |-> {1, 2, 3}, cmp |-> "descending"]
  /\ heap[prev.arg] = [m |-> {1, 3}, cmp |-> "ascending"]
  /\ out = <<3, 1>>

====
